---- MODULE Spec2Model ----
(***************************************************************************)
(* Wake/sleep word coordinator (useWakeWordDetection) over two speech      *)
(* recognition adapters (useSpeechToText), React 18.                       *)
(*                                                                         *)
(* React state is updated by the handlers (setState); the component is     *)
(* re-rendered, and its three effects re-run, in a later step (Render),   *)
(* enabled while an update is pending (dirty).  All three effects list the *)
(* object returned by useSpeechToText among their dependencies; that       *)
(* object is rebuilt on every render, so every effect runs on every        *)
(* render.  A pending render runs before the next recogniser event or      *)
(* call of start/stop/reset is handled, so these handlers are closures of  *)
(* the current state; a timer callback is a closure of the render that set *)
(* the timer and reads the isListening that render saw.                    *)
(*                                                                         *)
(* The browser recogniser behind each adapter (recognitionRef.current) is  *)
(* modelled by rec[a]:                                                     *)
(*   inactive  - no session                                                *)
(*   starting  - start() accepted, start event not yet delivered           *)
(*   startstop - stop() called before the start event was delivered        *)
(*   active    - start event delivered                                     *)
(*   stopping  - stop() called on an active session (one last result may   *)
(*               still be delivered before the end event)                  *)
(*   ending    - only the end event is still to come                       *)
(* start() throws (InvalidStateError) unless the recogniser is inactive.   *)
(***************************************************************************)
EXTENDS Integers, Sequences, FiniteSets, TLC

VARIABLES
  isSupported,     \* useSpeechToText.ts:45
  wakeWord,        \* config.wakeWord
  mounted,         \* the component is mounted: its effect cleanups have not run
  isActive,        \* useWakeWordDetection.ts:30
  status,          \* useWakeWordDetection.ts:31
  allTranscripts,  \* useWakeWordDetection.ts:32
  isListening,     \* per adapter, useSpeechToText.ts:39
  transcript,      \* per adapter, useSpeechToText.ts:40
  transcriptHistory,\* per adapter, useSpeechToText.ts:41
  error,           \* per adapter, useSpeechToText.ts:42
  rec,             \* per adapter, the recogniser behind recognitionRef
  dirty,           \* a state update is pending: a render is scheduled
  burstTimer,      \* the burst-restart timer of effect 1 is pending
  timers,          \* per adapter, pending handoff timers that will call its startListening
  now,             \* Date.now()
  wakeFired,       \* history: the last wake segment has already triggered an activation
  wakeStale,       \* history: the last wake segment predates the current waiting phase
  sleepStale,      \* history: the last transcription segment predates the current activation
  owed              \* history: entries finalized while transcribing and listening

vars == <<isSupported, wakeWord, mounted, isActive, status, allTranscripts, isListening,
          transcript, transcriptHistory, error, rec, dirty,
          burstTimer, timers, now, wakeFired, wakeStale, sleepStale, owed>>

\* what no handler of the mounted component changes
config == <<isSupported, wakeWord, mounted>>
ghosts == <<wakeFired, wakeStale, sleepStale, owed>>

\* ---------------------------------------------------------------- bounds
MaxSegments == 3
MaxClock == 1
MaxTimers == 1

\* ---------------------------------------------------------------- strings
\* A string is a sequence of one-character strings.
Lower(c) ==
  CASE c = "H" -> "h"
    [] c = "B" -> "b"
    [] OTHER -> c

toLowerCase(s) == [i \in DOMAIN s |-> Lower(s[i])]

IsSpace(c) == c = " "

RECURSIVE trimStart(_)
trimStart(s) ==
  IF s # <<>> /\ IsSpace(Head(s)) THEN trimStart(Tail(s)) ELSE s

RECURSIVE trimEnd(_)
trimEnd(s) ==
  IF s # <<>> /\ IsSpace(s[Len(s)]) THEN trimEnd(SubSeq(s, 1, Len(s) - 1)) ELSE s

trim(s) == trimEnd(trimStart(s))

includes(s, t) ==
  \E i \in 0..(Len(s) - Len(t)) : SubSeq(s, i + 1, i + Len(t)) = t

\* ---------------------------------------------------------------- configuration
WakeAdapter == "wake"
TranscriptionAdapter == "transcription"
Adapters == {WakeAdapter, TranscriptionAdapter}

DemoWakeWord == <<"h", "i">>
sleepWord == <<"B", "y", "e">>

\* error values are sequences of string parts; ErrEvent is `Error: ${event.error}`
NoError == <<"null">>
ErrUnsupportedMount == <<"Speech recognition is not supported in this browser">>
ErrUnsupportedStart == <<"Speech recognition is not supported">>
ErrFailedStart == <<"Failed to start speech recognition">>
ErrorReasons == {"no-speech"}
ErrEvent(reason) == <<"Error: ", reason>>

\* ---------------------------------------------------------------- result events
Final(t) == [transcript |-> t, isFinal |-> TRUE]
Interim(t) == [transcript |-> t, isFinal |-> FALSE]

\* The pieces of one result event, from event.resultIndex on.
\* The wake adapter runs with interimResults = false: final pieces only.
WakeEvents == { << Final(<<"H", "i">>) >>, << Final(<<"o", "k">>) >> }
TranscriptionEvents ==
  { << Final(<<"o", "k">>) >>,
    << Final(<<"b", "y", "e">>) >>,
    << Interim(<<"o", "k">>) >> }
EventsOf(a) == IF a = WakeAdapter THEN WakeEvents ELSE TranscriptionEvents

\* Result events of several pieces, and with an empty final piece, as the
\* transcription adapter (continuous, interimResults = true) receives them.
PieceEvents ==
  { << Final(<<>>) >>,
    << Final(<<"o">>), Final(<<"k">>) >>,
    << Interim(<<"o">>), Final(<<"k">>) >>,
    << Interim(<<"o">>), Interim(<<"k">>) >> }

RECURSIVE finalTranscript(_)
finalTranscript(ev) ==
  IF ev = <<>> THEN <<>>
  ELSE (IF Head(ev).isFinal THEN Head(ev).transcript \o <<" ">> ELSE <<>>)
       \o finalTranscript(Tail(ev))

RECURSIVE interimTranscript(_)
interimTranscript(ev) ==
  IF ev = <<>> THEN <<>>
  ELSE (IF Head(ev).isFinal THEN <<>> ELSE Head(ev).transcript)
       \o interimTranscript(Tail(ev))

\* interimTranscript || finalTranscript: the empty string is falsy
liveTranscript(ev) ==
  IF interimTranscript(ev) # <<>> THEN interimTranscript(ev) ELSE finalTranscript(ev)

entryId(t) == <<"transcript-", t>>

\* setTranscriptHistory(prev => [...prev, newEntry]) (useSpeechToText.ts:92)
addEntryInFront(prev, entry) == <<entry>> \o prev

addEntry(prev, entry) == Append(prev, entry)

newEntry(ev, t) ==
  [id |-> entryId(t), text |-> trim(finalTranscript(ev)), timestamp |-> t, isFinal |-> TRUE]

\* ---------------------------------------------------------------- the recogniser
\* recognition.start(): accepted only when no session exists, otherwise it throws
recognitionStartThrows(r) == r # "inactive"
recognitionStart(r) == IF r = "inactive" THEN "starting" ELSE r

\* recognition.stop(): ignored unless a session is starting or active
recognitionStopAborts(r) ==
  CASE r = "starting" -> "startstop"
    [] r = "active" -> "stopping"
    [] r = "stopping" -> "ending"
    [] OTHER -> r

recognitionStop(r) ==
  CASE r = "starting" -> "startstop"
    [] r = "active" -> "stopping"
    [] OTHER -> r

\* continuous: false for the wake adapter, true for the transcription adapter
continuous(a) == a = TranscriptionAdapter

\* ---------------------------------------------------------------- adapter: start / stop
\* listening is the isListening captured by the closure that is called.
\* startListening without its check of isSupported
startListeningRecUnchecked(a, listening) ==
  IF ~listening THEN recognitionStart(rec[a]) ELSE rec[a]

startListeningRec(a, listening) ==
  IF isSupported /\ ~listening THEN recognitionStart(rec[a]) ELSE rec[a]

startListeningError(a, listening) ==
  IF ~isSupported THEN ErrUnsupportedStart
  ELSE IF ~listening /\ recognitionStartThrows(rec[a]) THEN ErrFailedStart
  ELSE error[a]

stopListeningRec(a, listening) ==
  IF isSupported /\ listening THEN recognitionStop(rec[a]) ELSE rec[a]

\* ---------------------------------------------------------------- coordinator helpers
\* <adapter>.transcriptHistory[<adapter>.transcriptHistory.length - 1]
lastTranscriptOfWake(a) ==
  transcriptHistory[WakeAdapter][Len(transcriptHistory[WakeAdapter])]

lastTranscript(a) == transcriptHistory[a][Len(transcriptHistory[a])]

normalized(entry) == trim(toLowerCase(entry.text))

wakeWordDetected ==
  /\ ~isActive
  /\ isListening[WakeAdapter]
  /\ transcriptHistory[WakeAdapter] # <<>>
  /\ includes(normalized(lastTranscript(WakeAdapter)), toLowerCase(wakeWord))

sleepMonitorRuns ==
  /\ isActive
  /\ isListening[TranscriptionAdapter]
  /\ transcriptHistory[TranscriptionAdapter] # <<>>

sleepWordDetectedCaseSensitive ==
  /\ sleepMonitorRuns
  /\ includes(normalized(lastTranscript(TranscriptionAdapter)), sleepWord)

sleepWordDetected ==
  /\ sleepMonitorRuns
  /\ includes(normalized(lastTranscript(TranscriptionAdapter)), toLowerCase(sleepWord))

burstRestartDue ==
  /\ ~isActive
  /\ status = "waiting-for-wake-word"
  /\ ~isListening[WakeAdapter]
  /\ ~isListening[TranscriptionAdapter]

\* the updater without its check of the ids already present
mergeTranscriptUnchecked(prev, last) ==
  Append(prev, [id |-> last.id, text |-> last.text, timestamp |-> last.timestamp])

\* the updater passed to setAllTranscripts
mergeTranscript(prev, last) ==
  IF \E i \in DOMAIN prev : prev[i].id = last.id THEN prev
  ELSE Append(prev, [id |-> last.id, text |-> last.text, timestamp |-> last.timestamp])

\* setTimeout(() => <a>.startListening(), ...) in a render that saw listening.
\* A callback whose closure saw isListening = true returns from startListening
\* without doing anything (useSpeechToText.ts:122; isListening is true only
\* where the capability is supported): only the others are kept.
addTimer(a, listening) ==
  IF listening THEN timers ELSE [timers EXCEPT ![a] = @ + 1]

timerFits(a, listening) == listening \/ timers[a] < MaxTimers

\* The recognisers after a handoff effect has run (useWakeWordDetection.ts:74,
\* 116): the outgoing adapter's stopListening() is called; the incoming adapter's
\* startListening() is only handed to setTimeout.
handoffRecImmediate(outgoing) ==
  [a \in Adapters |-> IF a = outgoing
                      THEN stopListeningRec(a, isListening[a])
                      ELSE startListeningRec(a, isListening[a])]

handoffRec(outgoing) ==
  [rec EXCEPT ![outgoing] = stopListeningRec(outgoing, isListening[outgoing])]

\* error: wakeWordSpeech.error || transcriptionSpeech.error
\* (useWakeWordDetection.ts:148)
errorOutputTranscriptionFirst ==
  IF error[TranscriptionAdapter] # NoError THEN error[TranscriptionAdapter]
  ELSE error[WakeAdapter]

errorOutput ==
  IF error[WakeAdapter] # NoError THEN error[WakeAdapter] ELSE error[TranscriptionAdapter]

\* ---------------------------------------------------------------- initial state
InitWith(supported, word) ==
  /\ isSupported = supported
  /\ wakeWord = word
  /\ mounted = TRUE
  /\ isActive = FALSE
  /\ status = "idle"
  /\ allTranscripts = <<>>
  /\ isListening = [a \in Adapters |-> FALSE]
  /\ transcript = [a \in Adapters |-> <<>>]
  /\ transcriptHistory = [a \in Adapters |-> <<>>]
  /\ error = [a \in Adapters |-> IF isSupported THEN NoError ELSE ErrUnsupportedMount]
  /\ rec = [a \in Adapters |-> "inactive"]
  /\ dirty = FALSE
  /\ burstTimer = FALSE
  /\ timers = [a \in Adapters |-> 0]
  /\ now = 0
  /\ wakeFired = FALSE
  /\ wakeStale = FALSE
  /\ sleepStale = FALSE
  /\ owed = {}

Init == InitWith(TRUE, DemoWakeWord)

\* ---------------------------------------------------------------- coordinator operations
Start ==
  /\ mounted
  /\ ~dirty
  /\ status' = "waiting-for-wake-word"
  /\ rec' = [rec EXCEPT ![WakeAdapter] =
               startListeningRec(WakeAdapter, isListening[WakeAdapter])]
  /\ error' = [error EXCEPT ![WakeAdapter] =
                 startListeningError(WakeAdapter, isListening[WakeAdapter])]
  /\ dirty' = (dirty \/ status' # status \/ error' # error)
  /\ wakeStale' = (wakeStale \/ status # "waiting-for-wake-word")
  /\ UNCHANGED <<config, isActive, allTranscripts, isListening, transcript,
                 transcriptHistory, burstTimer, timers, now,
                 wakeFired, sleepStale, owed>>

Stop ==
  /\ mounted
  /\ ~dirty
  /\ status' = "idle"
  /\ isActive' = FALSE
  /\ rec' = [a \in Adapters |-> stopListeningRec(a, isListening[a])]
  /\ dirty' = (dirty \/ status' # status \/ isActive' # isActive)
  /\ UNCHANGED <<config, allTranscripts, isListening, transcript, transcriptHistory,
                 error, burstTimer, timers, now, ghosts>>

\* reset() (useWakeWordDetection.ts:138-141) only empties allTranscripts.
ResetToIdle ==
  /\ mounted
  /\ ~dirty
  /\ allTranscripts' = <<>>
  /\ status' = "idle"
  /\ isActive' = FALSE
  /\ dirty' = TRUE
  /\ owed' = {}
  /\ UNCHANGED <<config, isListening, transcript, transcriptHistory,
                 error, rec, burstTimer, timers, now,
                 wakeFired, wakeStale, sleepStale>>

Reset ==
  /\ mounted
  /\ ~dirty
  /\ allTranscripts' = <<>>
  /\ dirty' = TRUE
  /\ owed' = {}
  /\ UNCHANGED <<config, isActive, status, isListening, transcript, transcriptHistory,
                 error, rec, burstTimer, timers, now,
                 wakeFired, wakeStale, sleepStale>>

\* ---------------------------------------------------------------- recogniser events
OnStart(a) ==
  /\ mounted
  /\ ~dirty
  /\ rec[a] \in {"starting", "startstop"}
  /\ rec' = [rec EXCEPT ![a] = IF rec[a] = "starting" THEN "active" ELSE "stopping"]
  /\ isListening' = [isListening EXCEPT ![a] = TRUE]
  /\ error' = [error EXCEPT ![a] = NoError]
  /\ dirty' = (dirty \/ isListening' # isListening \/ error' # error)
  /\ UNCHANGED <<config, isActive, status, allTranscripts, transcript,
                 transcriptHistory, burstTimer, timers, now, ghosts>>

OnResult(a, ev) ==
  /\ mounted
  /\ ~dirty
  /\ rec[a] \in {"active", "stopping"}
  /\ transcript' = [transcript EXCEPT ![a] = liveTranscript(ev)]
  /\ IF finalTranscript(ev) # <<>>
     THEN /\ Len(transcriptHistory[WakeAdapter])
               + Len(transcriptHistory[TranscriptionAdapter]) < MaxSegments
          /\ transcriptHistory' =
               [transcriptHistory EXCEPT ![a] = addEntry(@, newEntry(ev, now))]
          /\ owed' = IF a = TranscriptionAdapter /\ isActive
                        /\ status = "active-transcription" /\ isListening[a]
                     THEN owed \cup {newEntry(ev, now)} ELSE owed
          /\ wakeFired' = (wakeFired /\ a # WakeAdapter)
          /\ wakeStale' = (wakeStale /\ a # WakeAdapter)
          /\ sleepStale' = (sleepStale /\ a # TranscriptionAdapter)
     ELSE UNCHANGED <<transcriptHistory, ghosts>>
  /\ rec' = [rec EXCEPT ![a] =
               IF rec[a] = "stopping" \/ (~continuous(a) /\ finalTranscript(ev) # <<>>)
               THEN "ending" ELSE @]
  /\ dirty' = (dirty \/ transcript' # transcript \/ finalTranscript(ev) # <<>>)
  /\ UNCHANGED <<config, isActive, status, allTranscripts, isListening, error,
                 burstTimer, timers, now>>

\* an onerror that also reports the error through the coordinator's status
OnErrorSetsStatus(a, reason) ==
  /\ mounted
  /\ ~dirty
  /\ rec[a] \in {"starting", "startstop", "active", "stopping"}
  /\ rec' = [rec EXCEPT ![a] = "ending"]
  /\ error' = [error EXCEPT ![a] = ErrEvent(reason)]
  /\ isListening' = [isListening EXCEPT ![a] = FALSE]
  /\ status' = "error"
  /\ dirty' = TRUE
  /\ UNCHANGED <<config, isActive, allTranscripts, transcript,
                 transcriptHistory, burstTimer, timers, now, ghosts>>

OnError(a, reason) ==
  /\ mounted
  /\ ~dirty
  /\ rec[a] \in {"starting", "startstop", "active", "stopping"}
  /\ rec' = [rec EXCEPT ![a] = "ending"]
  /\ error' = [error EXCEPT ![a] = ErrEvent(reason)]
  /\ isListening' = [isListening EXCEPT ![a] = FALSE]
  /\ dirty' = (dirty \/ isListening' # isListening \/ error' # error)
  /\ UNCHANGED <<config, isActive, status, allTranscripts, transcript,
                 transcriptHistory, burstTimer, timers, now, ghosts>>

\* an onend that leaves isListening as it is
EndKeepsListening(a) ==
  /\ mounted
  /\ rec[a] \in {"startstop", "active", "stopping", "ending"}
  /\ rec' = [rec EXCEPT ![a] = "inactive"]
  /\ transcript' = [transcript EXCEPT ![a] = <<>>]
  /\ dirty' = (dirty \/ transcript' # transcript)
  /\ UNCHANGED <<config, isActive, status, allTranscripts, isListening,
                 transcriptHistory, error, burstTimer, timers, now, ghosts>>

\* an onend that also empties the history
EndClearsHistory(a) ==
  /\ mounted
  /\ rec[a] \in {"startstop", "active", "stopping", "ending"}
  /\ rec' = [rec EXCEPT ![a] = "inactive"]
  /\ isListening' = [isListening EXCEPT ![a] = FALSE]
  /\ transcript' = [transcript EXCEPT ![a] = <<>>]
  /\ transcriptHistory' = [transcriptHistory EXCEPT ![a] = <<>>]
  /\ dirty' = TRUE
  /\ UNCHANGED <<config, isActive, status, allTranscripts, error,
                 burstTimer, timers, now, ghosts>>

\* onend (useSpeechToText.ts:101-105); the handler reads no state of a render
End(a) ==
  /\ mounted
  /\ rec[a] \in {"startstop", "active", "stopping", "ending"}
  /\ rec' = [rec EXCEPT ![a] = "inactive"]
  /\ isListening' = [isListening EXCEPT ![a] = FALSE]
  /\ transcript' = [transcript EXCEPT ![a] = <<>>]
  /\ dirty' = (dirty \/ isListening' # isListening \/ transcript' # transcript)
  /\ UNCHANGED <<config, isActive, status, allTranscripts, transcriptHistory, error,
                 burstTimer, timers, now, ghosts>>

OnEnd(a) == ~dirty /\ End(a)

\* ---------------------------------------------------------------- timers
\* The burst timer is set by a render in which the wake adapter is not listening.
BurstTimerFires ==
  /\ mounted
  /\ burstTimer
  /\ burstTimer' = FALSE
  /\ rec' = [rec EXCEPT ![WakeAdapter] = startListeningRec(WakeAdapter, FALSE)]
  /\ error' = [error EXCEPT ![WakeAdapter] = startListeningError(WakeAdapter, FALSE)]
  /\ dirty' = (dirty \/ error' # error)
  /\ UNCHANGED <<config, isActive, status, allTranscripts, isListening, transcript,
                 transcriptHistory, timers, now, ghosts>>

\* a timer callback that does not call startListening
HandoffTimerLost(a) ==
  /\ mounted
  /\ timers[a] > 0
  /\ timers' = [timers EXCEPT ![a] = @ - 1]
  /\ UNCHANGED <<config, isActive, status, allTranscripts, isListening, transcript,
                 transcriptHistory, error, rec, dirty, burstTimer, now, ghosts>>

HandoffTimerFires(a) ==
  /\ mounted
  /\ timers[a] > 0
  /\ timers' = [timers EXCEPT ![a] = @ - 1]
  /\ rec' = [rec EXCEPT ![a] = startListeningRec(a, FALSE)]
  /\ error' = [error EXCEPT ![a] = startListeningError(a, FALSE)]
  /\ dirty' = (dirty \/ error' # error)
  /\ UNCHANGED <<config, isActive, status, allTranscripts, isListening, transcript,
                 transcriptHistory, burstTimer, now, ghosts>>

Tick ==
  /\ mounted
  /\ ~dirty
  /\ now < MaxClock
  /\ now' = now + 1
  /\ UNCHANGED <<config, isActive, status, allTranscripts, isListening, transcript,
                 transcriptHistory, error, rec, dirty, burstTimer,
                 timers, ghosts>>

\* ---------------------------------------------------------------- render: the three effects
Render ==
  /\ mounted
  /\ dirty
  /\ burstTimer' = burstRestartDue
  /\ isActive' = IF wakeWordDetected THEN TRUE
                 ELSE IF sleepWordDetected THEN FALSE ELSE isActive
  /\ status' = IF wakeWordDetected THEN "active-transcription"
               ELSE IF sleepWordDetected THEN "waiting-for-wake-word" ELSE status
  /\ allTranscripts' = IF sleepMonitorRuns
                       THEN mergeTranscript(allTranscripts, lastTranscript(TranscriptionAdapter))
                       ELSE allTranscripts
  /\ rec' = IF wakeWordDetected THEN handoffRec(WakeAdapter)
            ELSE IF sleepWordDetected THEN handoffRec(TranscriptionAdapter)
            ELSE rec
  /\ IF wakeWordDetected
     THEN /\ timerFits(TranscriptionAdapter, isListening[TranscriptionAdapter])
          /\ timers' = addTimer(TranscriptionAdapter, isListening[TranscriptionAdapter])
     ELSE IF sleepWordDetected
     THEN /\ timerFits(WakeAdapter, isListening[WakeAdapter])
          /\ timers' = addTimer(WakeAdapter, isListening[WakeAdapter])
     ELSE timers' = timers
  /\ dirty' = (isActive' # isActive \/ status' # status \/ allTranscripts' # allTranscripts)
  /\ wakeFired' = (wakeFired \/ wakeWordDetected)
  /\ sleepStale' = (sleepStale \/ wakeWordDetected)
  /\ wakeStale' = (wakeStale \/ sleepWordDetected)
  /\ UNCHANGED <<config, isListening, transcript, transcriptHistory, error, now, owed>>

\* ---------------------------------------------------------------- teardown
\* The owning component is unmounted: the cleanups of the last render's effects
\* run.  Effect 1 clears its burst timer (useWakeWordDetection.ts:56); the mount
\* effect of each adapter calls recognition.stop() (useSpeechToText.ts:109-113);
\* effects 2 and 3 return no cleanup, so their timers stay pending.  A pending
\* render is dropped with the component.
Unmount ==
  /\ mounted
  /\ mounted' = FALSE
  /\ burstTimer' = FALSE
  /\ rec' = [a \in Adapters |-> IF isSupported THEN recognitionStop(rec[a]) ELSE rec[a]]
  /\ dirty' = FALSE
  /\ UNCHANGED <<isSupported, wakeWord, isActive, status, allTranscripts, isListening,
                 transcript, transcriptHistory, error, timers, now, ghosts>>

\* A handoff timer fires after the unmount.  Its callback still holds the
\* adapter's startListening, whose recognitionRef is still set; setError on the
\* unmounted component does nothing.
HandoffTimerFiresUnmounted(a) ==
  /\ ~mounted
  /\ timers[a] > 0
  /\ timers' = [timers EXCEPT ![a] = @ - 1]
  /\ rec' = [rec EXCEPT ![a] = startListeningRec(a, FALSE)]
  /\ UNCHANGED <<config, isActive, status, allTranscripts, isListening, transcript,
                 transcriptHistory, error, dirty, burstTimer, now, ghosts>>

\* The recogniser's events after the unmount: the handlers only set state of the
\* unmounted component, so only the recogniser itself moves on (start event,
\* error or last result, end event).
recognitionEvent(r) ==
  CASE r = "starting" -> {"active", "ending"}
    [] r = "startstop" -> {"stopping", "ending", "inactive"}
    [] r = "active" -> {"ending", "inactive"}
    [] r = "stopping" -> {"ending", "inactive"}
    [] r = "ending" -> {"inactive"}
    [] OTHER -> {}

RecogniserEventUnmounted(a) ==
  /\ ~mounted
  /\ \E r \in recognitionEvent(rec[a]) : rec' = [rec EXCEPT ![a] = r]
  /\ UNCHANGED <<config, isActive, status, allTranscripts, isListening, transcript,
                 transcriptHistory, error, dirty, burstTimer, timers, now, ghosts>>

\* ---------------------------------------------------------------- specification
Next ==
  \/ Start
  \/ Stop
  \/ Reset
  \/ \E a \in Adapters : OnStart(a)
  \/ \E a \in Adapters : \E ev \in EventsOf(a) : OnResult(a, ev)
  \/ \E a \in Adapters : \E reason \in ErrorReasons : OnError(a, reason)
  \/ \E a \in Adapters : OnEnd(a)
  \/ BurstTimerFires
  \/ \E a \in Adapters : HandoffTimerFires(a)
  \/ Tick
  \/ Render

Spec == Init /\ [][Next]_vars

\* The component's life including its unmount.
NextTeardown ==
  \/ Next
  \/ Unmount
  \/ \E a \in Adapters : HandoffTimerFiresUnmounted(a)
  \/ \E a \in Adapters : RecogniserEventUnmounted(a)

SpecTeardown == Init /\ [][NextTeardown]_vars

\* Scheduling: React runs a scheduled render; a pending timer fires; the
\* recogniser delivers the start event of a session it accepted and the end
\* event of a session that was stopped, has failed or has delivered its only
\* result.  Calls of start/stop/reset, results, errors and the end of a running
\* session are not forced.
SessionCloses(a) == rec[a] \in {"startstop", "stopping", "ending"} /\ End(a)

Fairness ==
  /\ WF_vars(Render)
  /\ WF_vars(BurstTimerFires)
  /\ \A a \in Adapters : WF_vars(HandoffTimerFires(a))
  /\ \A a \in Adapters : SF_vars(OnStart(a))
  /\ \A a \in Adapters : WF_vars(SessionCloses(a))

\* The runs in which stop() is never called and no recogniser reports an error.
\* Here the end event is delivered between the renders of a chain of renders
\* too, so that such a chain does not hold it back for ever.
NextUndisturbed ==
  \/ Start
  \/ Reset
  \/ \E a \in Adapters : OnStart(a)
  \/ \E a \in Adapters : \E ev \in EventsOf(a) : OnResult(a, ev)
  \/ \E a \in Adapters : End(a)
  \/ BurstTimerFires
  \/ \E a \in Adapters : HandoffTimerFires(a)
  \/ Tick
  \/ Render

FairSpecUndisturbed == Init /\ [][NextUndisturbed]_vars /\ Fairness

\* The browser may or may not offer SpeechRecognition (useSpeechToText.ts:45).
InitAnySupport == \E supported \in BOOLEAN : InitWith(supported, DemoWakeWord)

SpecAnySupport == InitAnySupport /\ [][Next]_vars


\* The runs in which reset() is never called.
NextNoReset ==
  \/ Start
  \/ Stop
  \/ \E a \in Adapters : OnStart(a)
  \/ \E a \in Adapters : \E ev \in EventsOf(a) : OnResult(a, ev)
  \/ \E a \in Adapters : \E reason \in ErrorReasons : OnError(a, reason)
  \/ \E a \in Adapters : OnEnd(a)
  \/ BurstTimerFires
  \/ \E a \in Adapters : HandoffTimerFires(a)
  \/ Tick
  \/ Render

SpecNoReset == Init /\ [][NextNoReset]_vars

\* The runs in which the transcription adapter also receives the events of
\* PieceEvents (stop(), reset() and error events left out).
NextPieces ==
  \/ Start
  \/ \E a \in Adapters : OnStart(a)
  \/ \E a \in Adapters : \E ev \in EventsOf(a) : OnResult(a, ev)
  \/ \E ev \in PieceEvents : OnResult(TranscriptionAdapter, ev)
  \/ \E a \in Adapters : OnEnd(a)
  \/ BurstTimerFires
  \/ \E a \in Adapters : HandoffTimerFires(a)
  \/ Tick
  \/ Render

SpecPieces == Init /\ [][NextPieces]_vars

\* The coordinator constructed with an empty wake word; the wake adapter also
\* finalizes a segment with empty text (stop(), reset() and error events left
\* out, as in NextPieces).
InitEmptyWakeWord == InitWith(TRUE, <<>>)

NextEmptyWakeWord ==
  \/ NextPieces
  \/ OnResult(WakeAdapter, << Final(<<>>) >>)

SpecEmptyWakeWord == InitEmptyWakeWord /\ [][NextEmptyWakeWord]_vars

\* ---------------------------------------------------------------- properties
Idle == status = "idle"
WaitingForWake == status = "waiting-for-wake-word"
Transcribing == status = "active-transcription"

bothListening == isListening[WakeAdapter] /\ isListening[TranscriptionAdapter]
handoffPending == \E a \in Adapters : timers[a] > 0

matches(entry, phrase) == includes(normalized(entry), toLowerCase(phrase))

\* C1: at most one of the two adapters has listening = true, except while a
\* handoff's deferred start of the incoming adapter is still pending.
C1_AtMostOneListening == bothListening => handoffPending

\* C2: once the phase is Idle (stop() has been called) no adapter becomes
\* listening again until start() is called.
C2_NoListeningAfterStop ==
  [][(Idle /\ Idle') =>
       \A a \in Adapters : isListening'[a] => isListening[a]]_vars

\* C3: the phase changes only along Idle -> WaitingForWake by start(),
\* WaitingForWake -> Transcribing by an activation match, Transcribing ->
\* WaitingForWake by a stop-phrase match, and anything -> Idle by stop().
C3_PhaseEdges ==
  [][status' # status =>
       \/ Idle /\ WaitingForWake' /\ Start
       \/ WaitingForWake /\ Transcribing' /\ wakeWordDetected
       \/ Transcribing /\ WaitingForWake' /\ sleepWordDetected
       \/ Idle' /\ Stop]_vars

\* C4: while WaitingForWake the phase becomes Transcribing if and only if a
\* segment finalized by the wake adapter in this waiting phase contains the
\* activation phrase, and it does so at that segment: once the render has run,
\* no matching segment of this waiting phase is left without a transition, and a
\* transition never happens on a segment that predates the waiting phase.
C4_MatchActedOn ==
  (~dirty /\ WaitingForWake /\ ~wakeStale /\ transcriptHistory[WakeAdapter] # <<>>)
     => ~matches(lastTranscript(WakeAdapter), wakeWord)

C4_OnlyOnNewSegment == (WaitingForWake /\ Transcribing') => ~wakeStale

C4_ActivationIffMatch == []C4_MatchActedOn /\ [][C4_OnlyOnNewSegment]_vars

\* C5: a wake segment that already triggered an activation never triggers
\* another one.
C5_WakeSegmentCheckedOnce ==
  [][(~isActive /\ isActive') => ~wakeFired]_vars

\* C6: the phase returns from Transcribing to WaitingForWake only on a stop
\* phrase segment finalized after the phase entered Transcribing.
C6_SleepSegmentCheckedOnce ==
  [][(isActive /\ ~isActive' /\ WaitingForWake') => ~sleepStale]_vars

\* C7: allTranscripts never contains two entries with the same id.
C7_NoDuplicateIds ==
  \A i, j \in DOMAIN allTranscripts :
    i # j => allTranscripts[i].id # allTranscripts[j].id

\* C7 witness: the transcription adapter delivered two segments with one id
\* while transcribing, the render has run, and one of them is in allTranscripts.
C7_Witness ==
  /\ ~dirty
  /\ \E e1, e2 \in owed : e1 # e2 /\ e1.id = e2.id
  /\ allTranscripts # <<>>

merged(e) == [id |-> e.id, text |-> e.text, timestamp |-> e.timestamp]

\* C8: every segment the transcription adapter finalizes while the phase is
\* Transcribing and the adapter is listening is in allTranscripts once the
\* render has run (until reset() empties it).
C8_NoSegmentLost ==
  ~dirty => \A e \in owed : \E i \in DOMAIN allTranscripts : allTranscripts[i] = merged(e)

\* C9: isActive is true if and only if status is 'active-transcription'.
C9_IsActiveIffTranscribing == isActive <=> Transcribing

\* C10: no adapter records a failed-start error: recognition.start() is never
\* called on a recogniser that is not inactive.
C10_NoFailedStart == \A a \in Adapters : error[a] # ErrFailedStart

\* C11: in a handoff step the outgoing adapter's stop() is issued and the
\* incoming adapter's start is only scheduled: the incoming recogniser is left
\* as it was and one more timer for it is pending; the transcription recogniser
\* is started by the firing of such a timer and by nothing else.
C11_HandoffStep(outgoing, incoming) ==
  /\ rec'[outgoing] = recognitionStop(rec[outgoing])
  /\ rec'[incoming] = rec[incoming]
  /\ ~isListening[incoming] => timers'[incoming] = timers[incoming] + 1

C11_StopThenDeferredStart ==
  [][/\ (~isActive /\ isActive') => C11_HandoffStep(WakeAdapter, TranscriptionAdapter)
     /\ (isActive /\ ~isActive' /\ WaitingForWake')
           => C11_HandoffStep(TranscriptionAdapter, WakeAdapter)
     /\ (rec[TranscriptionAdapter] = "inactive" /\ rec'[TranscriptionAdapter] = "starting")
           => timers'[TranscriptionAdapter] = timers[TranscriptionAdapter] - 1]_vars

\* C11 witness: a stop-phrase handoff has run: the transcription recogniser was
\* told to stop, the wake recogniser has no session yet and its start is pending.
C11_Witness ==
  /\ ~isActive /\ WaitingForWake
  /\ rec[TranscriptionAdapter] = "stopping"
  /\ rec[WakeAdapter] = "inactive"
  /\ timers[WakeAdapter] > 0

\* C12: after teardown both recognisers have been told to stop, and no timer
\* that fires later starts a recognition session: once the component is
\* unmounted no recogniser enters "starting".
C12_StoppedAtTeardown ==
  (mounted /\ ~mounted') => \A a \in Adapters : rec'[a] \notin {"starting", "active"}

C12_NoStartAfterTeardown ==
  [][/\ C12_StoppedAtTeardown
     /\ ~mounted => \A a \in Adapters : rec'[a] = "starting" => rec[a] = "starting"]_vars

C14_StopIdempotent ==
  [][Stop => (/\ status = "idle"
              /\ isActive = FALSE
              /\ \A a \in Adapters : stopListeningRec(a, isListening[a]) = rec[a])']_vars

\* C14 witness: stop() was called while an adapter was listening, so that its
\* recognition.stop() was issued and a second call would issue it again.
C14_Witness ==
  /\ Idle /\ ~isActive /\ dirty
  /\ \E a \in Adapters : isListening[a] /\ rec[a] = "stopping"

RECURSIVE isSubsequence(_, _)
isSubsequence(s, t) ==
  IF s = <<>> THEN TRUE
  ELSE IF t = <<>> THEN FALSE
  ELSE IF Head(s) = Head(t) THEN isSubsequence(Tail(s), Tail(t))
  ELSE isSubsequence(s, Tail(t))

transcriptionSegments ==
  [i \in DOMAIN transcriptHistory[TranscriptionAdapter] |->
     merged(transcriptHistory[TranscriptionAdapter][i])]

\* C15: allTranscripts is a subsequence, in the same relative order and without
\* repeated entries, of the transcription adapter's history; so no segment that
\* only the wake adapter produced is in it.
C15_MergedFromTranscription ==
  /\ isSubsequence(allTranscripts, transcriptionSegments)
  /\ \A i, j \in DOMAIN allTranscripts : i # j => allTranscripts[i] # allTranscripts[j]

\* C15 witness: two transcription segments are merged, in their order, while the
\* wake adapter's history holds its own segment.
C15_Witness ==
  /\ Len(allTranscripts) = 2
  /\ allTranscripts[1].text # allTranscripts[2].text
  /\ transcriptHistory[WakeAdapter] # <<>>

\* C16: the render that checks a segment the transcription adapter finalized in
\* Transcribing appends that segment to allTranscripts unless its id is already
\* there, and in the same step moves the phase to WaitingForWake if the segment
\* contains the stop phrase and leaves it Transcribing if not; every segment
\* finalized in Transcribing gets this render.
C16_Checks(last) ==
  /\ allTranscripts' = IF \E i \in DOMAIN allTranscripts : allTranscripts[i].id = last.id
                       THEN allTranscripts
                       ELSE Append(allTranscripts, merged(last))
  /\ matches(last, sleepWord) => WaitingForWake' /\ ~isActive'
  /\ ~matches(last, sleepWord) => Transcribing' /\ isActive'

C16_StopSegmentMerged ==
  [][/\ (Render /\ Transcribing /\ isListening[TranscriptionAdapter] /\ ~sleepStale
            /\ transcriptHistory[TranscriptionAdapter] # <<>>)
          => C16_Checks(lastTranscript(TranscriptionAdapter))
     /\ (Transcribing /\ Len(transcriptHistory'[TranscriptionAdapter])
                            > Len(transcriptHistory[TranscriptionAdapter]))
          => (dirty' /\ Transcribing' /\ isListening'[TranscriptionAdapter] /\ ~sleepStale')]_vars

\* C16 witness: a stop-phrase segment of the current activation was checked: it
\* is the last entry of allTranscripts and the phase is WaitingForWake.
C16_Witness ==
  /\ WaitingForWake /\ ~isActive /\ ~sleepStale
  /\ rec[TranscriptionAdapter] = "stopping"
  /\ allTranscripts # <<>>
  /\ allTranscripts[Len(allTranscripts)].text = <<"b", "y", "e">>

noneListening == ~isListening[WakeAdapter] /\ ~isListening[TranscriptionAdapter]

\* nothing is left that would run without a call from outside: no render is
\* scheduled and no recogniser has a session whose events are still to come
settled == ~dirty /\ \A a \in Adapters : rec[a] = "inactive"

\* C17: whenever the phase is WaitingForWake and neither adapter is listening,
\* the wake adapter is started again by a timer: once everything else has
\* settled (no render, no open session, no start of the transcription adapter
\* pending), the burst-restart timer or a timer that will call the wake
\* adapter's startListening is pending.
C17_BurstRestartPending ==
  (WaitingForWake /\ noneListening /\ settled /\ timers[TranscriptionAdapter] = 0)
     => (burstTimer \/ timers[WakeAdapter] > 0)

\* C18: the system never stays in a non-Idle phase with no adapter listening and
\* no start pending: once everything else has settled there, some timer that
\* will start an adapter is pending.
C18_StartPending ==
  (~Idle /\ noneListening /\ settled)
     => (burstTimer \/ \E a \in Adapters : timers[a] > 0)

errorEvent(a) == \E reason \in ErrorReasons : error[a] = ErrEvent(reason)

\* C19: an activation match in WaitingForWake sets the phase to Transcribing
\* and issues the wake adapter's stop() in the same step; and the start it
\* schedules for the transcription adapter (not yet listening) leads to that
\* adapter listening, unless stop() or an error event of the adapter intervenes.
C19_ActivationStep ==
  (WaitingForWake /\ ~isActive /\ isActive')
     => (Transcribing' /\ rec'[WakeAdapter] = recognitionStop(rec[WakeAdapter]))

C19_TranscriptionStartPending == isActive /\ timers[TranscriptionAdapter] > 0

C19_ActivationStartsTranscription ==
  /\ [][C19_ActivationStep]_vars
  /\ [](C19_TranscriptionStartPending => <>isListening[TranscriptionAdapter])

\* C19 witness: after an activation in WaitingForWake the wake session has
\* closed and the transcription adapter, started by the timer, is listening.
C19_Witness ==
  /\ isActive /\ Transcribing /\ sleepStale
  /\ rec[WakeAdapter] = "inactive" /\ ~isListening[WakeAdapter]
  /\ rec[TranscriptionAdapter] = "active" /\ isListening[TranscriptionAdapter]
  /\ timers[TranscriptionAdapter] = 0

\* C20: a stop-phrase match in Transcribing sets the phase to WaitingForWake and
\* issues the transcription adapter's stop() in the same step; from there, if no
\* stop() or error intervenes, the wake adapter comes to listen again and the
\* transcription adapter comes to report listening = false.
C20_SleepStep ==
  (Transcribing /\ isActive /\ ~isActive')
     => /\ WaitingForWake'
        /\ rec'[TranscriptionAdapter] = recognitionStop(rec[TranscriptionAdapter])

C20_TranscriptionStopped ==
  ~isActive /\ WaitingForWake /\ isListening[TranscriptionAdapter]

C20_SleepRestartsWake ==
  /\ [][C20_SleepStep]_vars
  /\ [](C20_TranscriptionStopped => <>isListening[WakeAdapter])
  /\ [](C20_TranscriptionStopped => <>~isListening[TranscriptionAdapter])

\* C20 witness: after a stop-phrase match the transcription session has closed
\* and the wake adapter, started again, is listening.
C20_Witness ==
  /\ ~isActive /\ WaitingForWake
  /\ transcriptHistory[TranscriptionAdapter] # <<>>
  /\ matches(lastTranscript(TranscriptionAdapter), sleepWord)
  /\ rec[TranscriptionAdapter] = "inactive" /\ ~isListening[TranscriptionAdapter]
  /\ rec[WakeAdapter] = "active" /\ isListening[WakeAdapter]

AllEvents(a) == IF a = WakeAdapter THEN WakeEvents ELSE TranscriptionEvents \cup PieceEvents

\* C21: a result event sets the adapter's transcript (liveText) to the
\* concatenation of the event's interim pieces in index order; with final
\* pieces and no interim piece the transcript is empty afterwards.
C21_LiveTextIsInterim ==
  [][\A a \in Adapters : \A ev \in AllEvents(a) :
       OnResult(a, ev) => transcript'[a] = interimTranscript(ev)]_vars

\* C22: a result event appends exactly one segment, whose text is the
\* space-joined trimmed concatenation of its final pieces, if that text is not
\* empty, and leaves the history unchanged if it is empty.
C22_SegmentText(ev) == trim(finalTranscript(ev))

C22_SegmentIffText ==
  [][\A a \in Adapters : \A ev \in AllEvents(a) :
       OnResult(a, ev) =>
         IF C22_SegmentText(ev) # <<>>
         THEN /\ Len(transcriptHistory'[a]) = Len(transcriptHistory[a]) + 1
              /\ SubSeq(transcriptHistory'[a], 1, Len(transcriptHistory[a]))
                   = transcriptHistory[a]
              /\ transcriptHistory'[a][Len(transcriptHistory'[a])].text = C22_SegmentText(ev)
         ELSE transcriptHistory'[a] = transcriptHistory[a]]_vars

\* C23: no two segments of one adapter's history, and no two segments of the
\* two adapters' histories, have the same id.
C23_UniqueSegmentIds ==
  \A a, b \in Adapters :
    \A i \in DOMAIN transcriptHistory[a] : \A j \in DOMAIN transcriptHistory[b] :
      (a # b \/ i # j) => transcriptHistory[a][i].id # transcriptHistory[b][j].id

\* C24: the end event leaves the adapter with isListening false and an empty
\* transcript, and its history and error as they were.
C24_EndFrame ==
  [][\A a \in Adapters :
       OnEnd(a) => /\ ~isListening'[a]
                   /\ transcript'[a] = <<>>
                   /\ transcriptHistory'[a] = transcriptHistory[a]
                   /\ error'[a] = error[a]]_vars

\* C24 witness: an end event has closed a session of an adapter that has a
\* segment in its history and an error recorded, and has changed its state.
C24_Witness ==
  \E a \in Adapters :
    /\ rec[a] = "inactive" /\ dirty
    /\ ~isListening[a] /\ transcript[a] = <<>>
    /\ transcriptHistory[a] # <<>> /\ error[a] # NoError

isPrefix(s, t) == Len(s) <= Len(t) /\ SubSeq(t, 1, Len(s)) = s

\* C25: each adapter's history is append-only: on every step the history before
\* the step is a prefix of the history after it.
C25_HistoryAppendOnly ==
  [][\A a \in Adapters : isPrefix(transcriptHistory[a], transcriptHistory'[a])]_vars

\* C25 witness: an adapter's history holds two different segments and stop()
\* has been called.
C25_Witness ==
  /\ Idle
  /\ \E a \in Adapters :
       /\ Len(transcriptHistory[a]) = 2
       /\ transcriptHistory[a][1] # transcriptHistory[a][2]

unsupportedMessage(e) == e \in {ErrUnsupportedMount, ErrUnsupportedStart}

\* C26: when SpeechRecognition is not supported neither adapter ever reports
\* isListening = true and each adapter's error is an unsupported message; every
\* start attempt (start(), a timer firing) leaves the wake adapter's error set
\* to the unsupported message of startListening.
C26_StartAttempt ==
  (~isSupported /\ (Start \/ BurstTimerFires))
     => (error'[WakeAdapter] = ErrUnsupportedStart /\ ~isListening'[WakeAdapter])

C26_UnsupportedNeverListens ==
  /\ [](~isSupported =>
          \A a \in Adapters : ~isListening[a] /\ unsupportedMessage(error[a]))
  /\ [][C26_StartAttempt]_vars

\* C26 witness: unsupported; start() was called and the burst-restart timer it
\* led to has fired: the wake adapter holds the message of startListening.
C26_Witness ==
  /\ ~isSupported /\ WaitingForWake /\ ~dirty /\ ~burstTimer
  /\ error[WakeAdapter] = ErrUnsupportedStart
  /\ ~isListening[WakeAdapter]

\* C27: an error event leaves the adapter with isListening false and its error
\* set to the reported reason ('Error: <reason>'), its history unchanged; and
\* the coordinator's error output is then the wake adapter's error if it has
\* one, otherwise the transcription adapter's.
C27_AfterError(a, reason) ==
  /\ ~isListening'[a]
  /\ error'[a] = <<"Error: ", reason>>
  /\ transcriptHistory'[a] = transcriptHistory[a]
  /\ errorOutput' = IF a = WakeAdapter \/ error[WakeAdapter] = NoError
                    THEN <<"Error: ", reason>>
                    ELSE error[WakeAdapter]

C28_EmptyPhraseActivates ==
  ~(/\ ~dirty /\ wakeWord = <<>>
    /\ WaitingForWake /\ ~wakeStale
    /\ transcriptHistory[WakeAdapter] # <<>>)

\* C29: after reset() in Transcribing with the transcription adapter listening,
\* allTranscripts stays empty until the adapter finalizes a new segment: while
\* the last transcription segment is one of the current activation and no
\* segment has been finalized since the reset, allTranscripts is empty.
C29_EmptyUntilNewSegment ==
  (Transcribing /\ isActive /\ isListening[TranscriptionAdapter]
     /\ ~sleepStale /\ owed = {})
    => allTranscripts = <<>>

\* C30: every entry of allTranscripts was finalized by the transcription adapter
\* while the phase was Transcribing.  Without reset() the set owed holds exactly
\* the segments finalized in Transcribing, so every entry of allTranscripts is
\* one of them.
C30_MergedWhileTranscribing ==
  \A i \in DOMAIN allTranscripts : \E e \in owed : merged(e) = allTranscripts[i]

\* C31: status is driven by the phase alone.  An error event of an adapter, and a
\* start of an adapter that fails (unsupported, or recognition.start() throws),
\* change neither status, isActive nor allTranscripts: when the failing start is
\* the one issued by start(), status is the 'waiting-for-wake-word' that start()
\* sets in any case.  And status is always one of 'idle',
\* 'waiting-for-wake-word' and 'active-transcription', never 'error', whatever
\* the error output.
C31_Statuses == {"idle", "waiting-for-wake-word", "active-transcription"}

C31_StartFails(a, listening) ==
  ~isSupported \/ (~listening /\ recognitionStartThrows(rec[a]))

C31_Frame == UNCHANGED <<status, isActive, allTranscripts>>

C31_ErrorStep ==
  /\ \A a \in Adapters : \A reason \in ErrorReasons : OnError(a, reason) => C31_Frame
  /\ \A a \in Adapters :
       (HandoffTimerFires(a) /\ C31_StartFails(a, FALSE)) => C31_Frame
  /\ (BurstTimerFires /\ C31_StartFails(WakeAdapter, FALSE)) => C31_Frame
  /\ (Start /\ C31_StartFails(WakeAdapter, isListening[WakeAdapter]))
       => (status' = "waiting-for-wake-word" /\ UNCHANGED <<isActive, allTranscripts>>)

C31_StatusDrivenByPhase ==
  /\ status \in C31_Statuses
  /\ [][C31_ErrorStep /\ status' \in C31_Statuses]_vars

\* C31 witness: the phase is Transcribing with segments merged, while the wake
\* adapter holds the error of an error event and the transcription adapter the
\* error of a failed start: the error output is non-null.
C31_Witness ==
  /\ Transcribing /\ isActive /\ allTranscripts # <<>>
  /\ errorEvent(WakeAdapter)
  /\ error[TranscriptionAdapter] = ErrFailedStart
  /\ errorOutput # NoError

====
